---- MODULE Spec2Model ----
(***************************************************************************)
(* The interpreter scans of the three diagnostic scripts:                  *)
(*   verify-superclaude.py        ("verify")                               *)
(*   test-simple-fix.py           ("simplefix")                            *)
(*   test-bridge-functionality.py ("bridge")                               *)
(* One run of one script is one behaviour.  Every subprocess.run call is   *)
(* two steps: the launch (which may raise) and the wait for the child      *)
(* (which blocks until the child exits, or until the timeout when the call *)
(* passes one).  What a child does is the environment's choice.            *)
(***************************************************************************)
EXTENDS Integers, Sequences, FiniteSets

VARIABLES
    script,       \* which script this run executes
    env,          \* os.environ value of SUPERCLAUDE_PYTHON
    pc,           \* position in the script
    i,            \* 1-based index of the candidate the scan loop is at
    j,            \* 1-based index into test_commands (bridge)
    selected,     \* working_python (simplefix) / python_cmd (bridge)
    found_count,  \* found_count (verify)
    results,      \* values returned by check_superclaude, in call order (verify)
    out,          \* lines printed so far
    spawned,      \* subprocess.run calls made so far
    completed,    \* how each finished subprocess.run call ended
    child,        \* the child process subprocess.run is waiting for, or None
    exitcode      \* process exit code, None while the script runs

vars == <<script, env, pc, i, j, selected, found_count, results, out,
          spawned, completed, child, exitcode>>

None == "<None>"

Scripts == {"verify", "simplefix", "bridge"}

\* SUPERCLAUDE_PYTHON: unset, set to the empty string, set to a path of its
\* own, or set to the name another candidate also has
EnvValues == {None, "", "/opt/sc/bin/python", "python3"}

\* subprocess.run raises before a child exists
Raises == {"FileNotFoundError", "OtherError"}

\* what a launched child does: exit status and whether stdout holds "OK",
\* or never exiting on its own
Exits == {"exit0_ok", "exit0_nook", "exit1_ok", "exit1_nook"}

Behaviours == Exits \cup {"hang"}

LaunchOutcomes == Raises \cup Behaviours

ReturnCode(res) == IF res \in {"exit0_ok", "exit0_nook"} THEN 0 ELSE 1

HasSentinel(res) == res \in {"exit0_ok", "exit1_ok"}

\* the timeout= argument of the test_commands loop, in seconds
TestTimeout == 5

\* the timeout= keyword of a subprocess.run call: absent, or <<seconds>>
NoTimeout == << >>

\* os.environ.get(name): None when the variable is unset
EnvGet(e) == e

\* os.environ.get(name, ""): the default when the variable is unset
EnvGetDefault(e) == IF e = None THEN "" ELSE e

\* Python truthiness of an optional string
Falsy(x) == x = None \/ x = ""

VsEnvironments ==
    << [name |-> "System Python", path |-> "python3"],
       [name |-> "Project venv",  path |-> "cwd/venv/bin/python"],
       [name |-> "Project .venv", path |-> "cwd/.venv/bin/python"],
       [name |-> "Parent venv",   path |-> "parent/venv/bin/python"] >>

python_paths(e) ==
    << [name |-> "SUPERCLAUDE_PYTHON", path |-> EnvGet(e)],
       [name |-> "System python3",     path |-> "python3"],
       [name |-> "Venv python",        path |-> "cwd/venv/bin/python"] >>

TbfCandidates(e) == << "python3", "./venv/bin/python", EnvGetDefault(e) >>

test_commands == << "version", "help", "list-personas" >>

Line(idx, kind) == [idx |-> idx, kind |-> kind]

Call(cmd, idx, py) == [cmd |-> cmd, idx |-> idx, py |-> py]

Ended(cmd, idx, py, res) == [cmd |-> cmd, idx |-> idx, py |-> py, res |-> res]

Running(cmd, idx, py, res, tmo) ==
    [cmd |-> cmd, idx |-> idx, py |-> py, res |-> res, timeout |-> tmo]

\* subprocess.run stops waiting: the child exited, or the call passed a
\* timeout and the child outlives it
Returns(c) == c.res \in Exits \/ c.timeout # NoTimeout

\* what the wait ends with
WaitResult(c) == IF c.res \in Exits THEN c.res ELSE "TimeoutExpired"

Init ==
    /\ script \in Scripts
    \* verify-superclaude.py never reads SUPERCLAUDE_PYTHON
    /\ env \in IF script = "verify" THEN {None} ELSE EnvValues
    /\ pc = [verify |-> "vs_run", simplefix |-> "tsf_iter", bridge |-> "tbf_iter"][script]
    /\ i = 1
    /\ j = 1
    /\ selected = None
    /\ found_count = 0
    /\ results = << >>
    /\ out = << >>
    /\ spawned = << >>
    /\ completed = << >>
    /\ child = None
    /\ exitcode = None

----
(* verify-superclaude.py *)

\* check_superclaude's test of the import check's CompletedProcess
VsSuccess(res) == ReturnCode(res) = 0 /\ HasSentinel(res)

\* variant: only the FileNotFoundError clause, anything else propagates
VsExceptOnlyNotFound(exc) ==
    IF exc = "FileNotFoundError" THEN "python_not_found" ELSE "propagate"

\* the except clauses of check_superclaude: the status line each one prints
VsExceptLine(exc) ==
    IF exc = "FileNotFoundError" THEN "python_not_found" ELSE "error"

\* check_superclaude returns `value` after printing `lines`; the loop body
\* counts it and goes to the next environment
VsReturn(lines, value) ==
    /\ out' = out \o lines
    /\ results' = Append(results, value)
    /\ found_count' = IF value THEN found_count + 1 ELSE found_count
    /\ i' = i + 1
    /\ pc' = "vs_run"
    /\ exitcode' = exitcode

\* an exception of check_superclaude's try block reaches its except clauses
VsExcept(exc) ==
    IF VsExceptLine(exc) = "propagate"
    THEN /\ out' = Append(out, Line(i, "traceback"))
         /\ pc' = "done"
         /\ exitcode' = 1
         /\ UNCHANGED <<results, found_count, i>>
    ELSE VsReturn(<< Line(i, VsExceptLine(exc)) >>, FALSE)

\* the import check is launched for environments[i]
VS_Run ==
    /\ script = "verify" /\ pc = "vs_run" /\ i <= Len(VsEnvironments)
    /\ LET py == VsEnvironments[i].path IN
       \E o \in LaunchOutcomes :
          /\ spawned' = Append(spawned, Call("import", i, py))
          /\ IF o \in Raises
             THEN /\ completed' = Append(completed, Ended("import", i, py, o))
                  /\ VsExcept(o)
                  /\ child' = child
             ELSE /\ child' = Running("import", i, py, o, NoTimeout)
                  /\ pc' = "vs_wait"
                  /\ UNCHANGED <<completed, out, results, found_count, i, exitcode>>
    /\ UNCHANGED <<script, env, j, selected>>

\* the import check's child exits
VS_Wait ==
    /\ script = "verify" /\ pc = "vs_wait" /\ Returns(child)
    /\ completed' = Append(completed, Ended("import", i, child.py, child.res))
    /\ child' = None
    /\ IF VsSuccess(child.res)
       THEN /\ out' = Append(out, Line(i, "found"))
            /\ pc' = "vs_details"
            /\ UNCHANGED <<results, found_count, i, exitcode>>
       ELSE \E stderr \in BOOLEAN :
               VsReturn(<< Line(i, "not_found") >>
                          \o (IF stderr THEN << Line(i, "stderr") >> ELSE << >>),
                        FALSE)
    /\ UNCHANGED <<script, env, j, selected, spawned>>

\* the details invocation is launched, inside the same try block
VS_Details ==
    /\ script = "verify" /\ pc = "vs_details"
    /\ LET py == VsEnvironments[i].path IN
       \E o \in LaunchOutcomes :
          /\ spawned' = Append(spawned, Call("details", i, py))
          /\ IF o \in Raises
             THEN /\ completed' = Append(completed, Ended("details", i, py, o))
                  /\ VsExcept(o)
                  /\ child' = child
             ELSE /\ child' = Running("details", i, py, o, NoTimeout)
                  /\ pc' = "vs_dwait"
                  /\ UNCHANGED <<completed, out, results, found_count, i, exitcode>>
    /\ UNCHANGED <<script, env, j, selected>>

\* the details child exits; check_superclaude returns True
VS_DetailsWait ==
    /\ script = "verify" /\ pc = "vs_dwait" /\ Returns(child)
    /\ completed' = Append(completed, Ended("details", i, child.py, child.res))
    /\ child' = None
    /\ VsReturn(IF ReturnCode(child.res) = 0 THEN << Line(i, "details") >> ELSE << >>,
                TRUE)
    /\ UNCHANGED <<script, env, j, selected, spawned>>

\* the loop is exhausted: summary and current-environment lines
VS_Summary ==
    /\ script = "verify" /\ pc = "vs_run" /\ i > Len(VsEnvironments)
    /\ out' = out \o << Line(0, "summary"), Line(0, "current_environment") >>
    /\ pc' = "vs_import"
    /\ UNCHANGED <<script, env, i, j, selected, found_count, results,
                   spawned, completed, child, exitcode>>

\* `import SuperClaude` in the running interpreter; only ImportError is caught
VS_CurrentImport ==
    /\ script = "verify" /\ pc = "vs_import"
    /\ \E r \in {"importable", "ImportError", "OtherError"} :
          /\ out' = Append(out, Line(0, IF r = "importable" THEN "importable"
                                        ELSE IF r = "ImportError" THEN "cannot_import"
                                        ELSE "traceback"))
          /\ exitcode' = IF r = "OtherError" THEN 1 ELSE 0
    /\ pc' = "done"
    /\ UNCHANGED <<script, env, i, j, selected, found_count, results,
                   spawned, completed, child>>

----
(* test-simple-fix.py *)

\* the loop's test of the import check's CompletedProcess
TsfSuccess(res) == ReturnCode(res) = 0

\* variant: the assignment without its `if not working_python` guard
TsfSelectLast(cur, path) == path

\* `if not working_python: working_python = python_path`
TsfSelect(cur, path) == IF Falsy(cur) THEN path ELSE cur

\* one pass of the loop body up to the subprocess.run call
TSF_Iter ==
    /\ script = "simplefix" /\ pc = "tsf_iter" /\ i <= Len(python_paths(env))
    /\ LET py == python_paths(env)[i].path IN
       IF Falsy(py)
       THEN /\ out' = Append(out, Line(i, "not_set"))
            /\ i' = i + 1
            /\ UNCHANGED <<pc, spawned, completed, child>>
       ELSE \E o \in LaunchOutcomes :
               /\ spawned' = Append(spawned, Call("import", i, py))
               /\ IF o \in Raises
                  THEN /\ completed' = Append(completed, Ended("import", i, py, o))
                       /\ out' = Append(out, Line(i, "not_accessible"))
                       /\ i' = i + 1
                       /\ UNCHANGED <<pc, child>>
                  ELSE /\ child' = Running("import", i, py, o, NoTimeout)
                       /\ pc' = "tsf_wait"
                       /\ UNCHANGED <<completed, out, i>>
    /\ UNCHANGED <<script, env, j, selected, found_count, results, exitcode>>

\* the import check's child exits
TSF_Wait ==
    /\ script = "simplefix" /\ pc = "tsf_wait" /\ Returns(child)
    /\ completed' = Append(completed, Ended("import", i, child.py, child.res))
    /\ child' = None
    /\ IF TsfSuccess(child.res)
       THEN /\ out' = Append(out, Line(i, "found"))
            /\ selected' = TsfSelect(selected, child.py)
       ELSE /\ out' = Append(out, Line(i, "not_found"))
            /\ selected' = selected
    /\ i' = i + 1
    /\ pc' = "tsf_iter"
    /\ UNCHANGED <<script, env, j, found_count, results, spawned, exitcode>>

\* the loop is exhausted: the selection is printed and the script runs to its end
TSF_Report ==
    /\ script = "simplefix" /\ pc = "tsf_iter" /\ i > Len(python_paths(env))
    /\ out' = out \o << Line(0, "selected"),
                        Line(0, IF Falsy(selected) THEN "none_found" ELSE "export") >>
    /\ exitcode' = 0
    /\ pc' = "done"
    /\ UNCHANGED <<script, env, i, j, selected, found_count, results,
                   spawned, completed, child>>

----
(* test-bridge-functionality.py *)

\* variant: the loop without its break
TbfAfterNoBreak(rc, idx) == [pc |-> "tbf_iter", i |-> idx + 1]

\* where the selection loop goes after an import check returned `rc`:
\* out of the loop (break) on zero, on to the next candidate otherwise
TbfAfter(rc, idx) ==
    IF rc = 0 THEN [pc |-> "tbf_check", i |-> idx]
              ELSE [pc |-> "tbf_iter", i |-> idx + 1]

\* one pass of the selection loop up to the subprocess.run call
TBF_Iter ==
    /\ script = "bridge" /\ pc = "tbf_iter" /\ i <= Len(TbfCandidates(env))
    /\ LET py == TbfCandidates(env)[i] IN
       IF Falsy(py)
       THEN /\ i' = i + 1
            /\ UNCHANGED <<pc, spawned, completed, child>>
       ELSE \E o \in LaunchOutcomes :
               /\ spawned' = Append(spawned, Call("import", i, py))
               /\ IF o \in Raises
                  THEN /\ completed' = Append(completed, Ended("import", i, py, o))
                       /\ i' = i + 1
                       /\ UNCHANGED <<pc, child>>
                  ELSE /\ child' = Running("import", i, py, o, NoTimeout)
                       /\ pc' = "tbf_wait"
                       /\ UNCHANGED <<completed, i>>
    /\ UNCHANGED <<script, env, j, selected, found_count, results, out, exitcode>>

\* the import check's child exits
TBF_Wait ==
    /\ script = "bridge" /\ pc = "tbf_wait" /\ Returns(child)
    /\ completed' = Append(completed, Ended("import", i, child.py, child.res))
    /\ child' = None
    /\ selected' = IF ReturnCode(child.res) = 0 THEN child.py ELSE selected
    /\ pc' = TbfAfter(ReturnCode(child.res), i).pc
    /\ i' = TbfAfter(ReturnCode(child.res), i).i
    /\ UNCHANGED <<script, env, j, found_count, results, out, spawned, exitcode>>

\* after the loop: exit 1 without an interpreter, else go on to the tests
TBF_Check ==
    /\ script = "bridge"
    /\ (pc = "tbf_check" \/ (pc = "tbf_iter" /\ i > Len(TbfCandidates(env))))
    /\ IF Falsy(selected)
       THEN /\ out' = Append(out, Line(0, "no_python"))
            /\ exitcode' = 1
            /\ pc' = "done"
       ELSE /\ out' = Append(out, Line(0, "using"))
            /\ exitcode' = exitcode
            /\ pc' = "tbf_test"
    /\ UNCHANGED <<script, env, i, j, selected, found_count, results,
                   spawned, completed, child>>

\* test_commands[j] is launched with python_cmd and timeout=5
TBF_Test ==
    /\ script = "bridge" /\ pc = "tbf_test" /\ j <= Len(test_commands)
    /\ \E o \in LaunchOutcomes :
          /\ spawned' = Append(spawned, Call(test_commands[j], 0, selected))
          /\ IF o \in Raises
             THEN /\ completed' = Append(completed, Ended(test_commands[j], 0, selected, o))
                  /\ out' = out \o << Line(0, "testing"), Line(0, "test_error") >>
                  /\ j' = j + 1
                  /\ UNCHANGED <<pc, child>>
             ELSE /\ child' = Running(test_commands[j], 0, selected, o, << TestTimeout >>)
                  /\ out' = Append(out, Line(0, "testing"))
                  /\ pc' = "tbf_twait"
                  /\ UNCHANGED <<completed, j>>
    /\ UNCHANGED <<script, env, i, selected, found_count, results, exitcode>>

\* the test command's child exits, or the timeout expires and it is killed
TBF_TestWait ==
    /\ script = "bridge" /\ pc = "tbf_twait" /\ Returns(child)
    /\ LET res == WaitResult(child) IN
          /\ completed' = Append(completed, Ended(child.cmd, 0, child.py, res))
          /\ out' = Append(out, Line(0, IF res = "TimeoutExpired" THEN "test_timed_out"
                                        ELSE IF ReturnCode(res) = 0 THEN "test_success"
                                        ELSE "test_failed"))
    /\ child' = None
    /\ j' = j + 1
    /\ pc' = "tbf_test"
    /\ UNCHANGED <<script, env, i, selected, found_count, results, spawned, exitcode>>

\* the rest of the script: narration, the MCP configuration check, the summary
TBF_Tail ==
    /\ script = "bridge" /\ pc = "tbf_test" /\ j > Len(test_commands)
    /\ \E mcp_configured \in BOOLEAN :
          out' = out \o << Line(0, IF mcp_configured THEN "mcp_configured"
                                   ELSE "mcp_not_configured"),
                           Line(0, "summary"), Line(0, "export") >>
    /\ exitcode' = 0
    /\ pc' = "done"
    /\ UNCHANGED <<script, env, i, j, selected, found_count, results,
                   spawned, completed, child>>

----
Next ==
    \/ VS_Run
    \/ VS_Wait
    \/ VS_Details
    \/ VS_DetailsWait
    \/ VS_Summary
    \/ VS_CurrentImport
    \/ TSF_Iter
    \/ TSF_Wait
    \/ TSF_Report
    \/ TBF_Iter
    \/ TBF_Wait
    \/ TBF_Check
    \/ TBF_Test
    \/ TBF_TestWait
    \/ TBF_Tail

Spec == Init /\ [][Next]_vars

\* a running script takes its next step whenever it has one
FairSpec == Spec /\ WF_vars(Next)

----
(* Vocabulary of the properties *)

\* the candidate list of the running script, as interpreter paths
CandPaths ==
    IF script = "verify" THEN [n \in DOMAIN VsEnvironments |-> VsEnvironments[n].path]
    ELSE IF script = "simplefix" THEN [n \in DOMAIN python_paths(env) |-> python_paths(env)[n].path]
    ELSE TbfCandidates(env)

NumCands == Len(CandPaths)

\* the per-candidate status lines among the printed lines
StatusKinds ==
    {"found", "not_found", "python_not_found", "error", "not_set", "not_accessible"}

FailureKinds == {"python_not_found", "error", "not_accessible"}

IsStatus(l) == l.idx > 0 /\ l.kind \in StatusKinds

StatusLines == SelectSeq(out, IsStatus)

HasLine(idx, kinds) == \E n \in DOMAIN out : out[n].idx = idx /\ out[n].kind \in kinds

\* finished import checks whose child exited
ImportExits == {k \in DOMAIN completed :
                  completed[k].cmd = "import" /\ completed[k].res \in Exits}

\* candidates whose import check exited with status zero
ZeroExitIdx == {completed[k].idx : k \in {m \in ImportExits : ReturnCode(completed[m].res) = 0}}

MinOf(S) == CHOOSE x \in S : \A y \in S : x <= y

ImportSpawned(idx) ==
    \E s \in DOMAIN spawned : spawned[s].cmd = "import" /\ spawned[s].idx = idx

TestSpawns == SelectSeq(spawned, LAMBDA c : c.cmd # "import")

\* the scan recorded some candidate as successful
AnySuccess ==
    IF script = "verify" THEN \E n \in DOMAIN results : results[n]
    ELSE IF script = "simplefix" THEN \E n \in 1..NumCands : HasLine(n, {"found"})
    ELSE ~Falsy(selected)

----
(* C1: in the two scripts that select an interpreter, the selection is at   *)
(* every moment the lowest-index candidate whose import check has exited    *)
(* with status zero, and is absent while there is none; so a later success  *)
(* never replaces it.                                                       *)
C1_LowestIndexSuccessSelected ==
    script \in {"simplefix", "bridge"} =>
        selected = IF ZeroExitIdx = {} THEN None ELSE CandPaths[MinOf(ZeroExitIdx)]

\* simplefix ran to its end: candidate 1 failed, candidates 2 and 3 both succeeded
C1_Witness ==
    /\ script = "simplefix" /\ pc = "done"
    /\ env = "/opt/sc/bin/python"
    /\ ZeroExitIdx = {2, 3}
    /\ selected = "python3"

(* C2: when the script ends, exactly one status line per candidate has been *)
(* printed, in candidate order.                                             *)
C2_OneStatusLinePerCandidate ==
    pc = "done" =>
        /\ Len(StatusLines) = NumCands
        /\ \A n \in DOMAIN StatusLines : StatusLines[n].idx = n

(* C3: the script ends with exit code 0 if some candidate succeeded and     *)
(* with exit code 1 otherwise; without a success nothing is selected.       *)
C3_ExitCodeReflectsSuccess ==
    pc = "done" =>
        /\ exitcode = IF AnySuccess THEN 0 ELSE 1
        /\ (~AnySuccess => selected = None)

(* C4: a candidate is reported found exactly when its import check exited   *)
(* with status zero and printed the sentinel.                               *)
C4_SuccessIffZeroAndSentinel ==
    script \in {"verify", "simplefix"} =>
        \A k \in ImportExits :
            HasLine(completed[k].idx, {"found"})
                <=> (ReturnCode(completed[k].res) = 0 /\ HasSentinel(completed[k].res))

(* C5: every run reaches its end, whatever the children do.                 *)
C5_ScanTerminates == <>(pc = "done")

C7_OverrideHasPriority ==
    (script \in {"simplefix", "bridge"} /\ ~Falsy(env)) =>
        /\ spawned # << >> => spawned[1].py = env
        /\ (\E k \in ImportExits :
               completed[k].py = env /\ ReturnCode(completed[k].res) = 0)
              => selected = env

(* C9: a candidate of verify whose import check exited zero with the         *)
(* sentinel is returned as True by check_superclaude and gets no error       *)
(* status line, whatever the details invocation does.                        *)
C9_MetadataBestEffort ==
    script = "verify" =>
        \A k \in ImportExits :
            LET c == completed[k] IN
            (VsSuccess(c.res) /\ Len(results) >= c.idx) =>
                /\ results[c.idx]
                /\ ~HasLine(c.idx, FailureKinds \cup {"not_found"})

(* C10: in bridge, no import check is launched for a candidate after one     *)
(* whose import check exited zero; every test command is launched with the   *)
(* selected interpreter, which is then present; a run that selected one      *)
(* launches exactly the three test commands in order, and a run that         *)
(* selected none ends with exit code 1 having launched none.                 *)
C10_ShortCircuitAndGate ==
    script = "bridge" =>
        /\ \A k \in ImportExits : \A s \in DOMAIN spawned :
              (ReturnCode(completed[k].res) = 0 /\ spawned[s].cmd = "import")
                  => spawned[s].idx <= completed[k].idx
        /\ \A n \in DOMAIN TestSpawns :
              /\ ~Falsy(selected)
              /\ TestSpawns[n].py = selected
              /\ n <= Len(test_commands)
              /\ TestSpawns[n].cmd = test_commands[n]
        /\ (pc = "done" /\ ~Falsy(selected)) => Len(TestSpawns) = Len(test_commands)
        /\ (pc = "done" /\ Falsy(selected)) => (TestSpawns = << >> /\ exitcode = 1)

\* bridge ran to its end with the override set: python3 succeeded at once, the
\* other two candidates were never launched, the three tests were
C10_Witness ==
    /\ script = "bridge" /\ pc = "done"
    /\ env = "/opt/sc/bin/python"
    /\ selected = "python3"
    /\ Len(spawned) = 1 + Len(test_commands)
    /\ exitcode = 0

====
